---- MODULE Spec2Model ----
(***************************************************************************)
(* Duplicate detection and resolution of src/duplicate_checker.py:         *)
(* DuplicateChecker (detect_duplicates, log_duplicates_to_db,              *)
(* clean_duplicates, save_to_database) as driven by main().                *)
(*                                                                         *)
(* Modelling conventions                                                   *)
(*  - df is the DataFrame read by pd.read_csv: a sequence of rows whose    *)
(*    index is the default RangeIndex.  TLA+ sequences start at 1, so the  *)
(*    row at position p (1..n) carries index label p-1; the loop variables *)
(*    i, j of detect_duplicates keep the code's 0-based values.            *)
(*  - names are sequences of one-character strings.                        *)
(*  - all rows lie on one meridian (longitude 0) and latitudes are         *)
(*    multiples of one grid step; for equal longitudes the haversine       *)
(*    formula of calculate_distance reduces to R * |dlat|, which is        *)
(*    LatStepMeters * |k2 - k1| for grid latitudes k1, k2.                 *)
(*  - a similarity score is kept as the exact fraction num/den, so that a  *)
(*    comparison with a threshold is exact.                                *)
(***************************************************************************)
EXTENDS Integers, Sequences, FiniteSets, TLC

VARIABLES
    pc,                         \* position of main()
    df,                         \* the input DataFrame (sequence of rows)
    has_id,                     \* whether df has an 'id' column
    engine,                     \* self.engine: "up" or "none"
    name_similarity_threshold,  \* self.name_similarity_threshold
    distance_threshold,         \* self.distance_threshold
    i, j,                       \* loop variables of detect_duplicates
    comparisons,                \* comparisons counter of detect_duplicates
    duplicates,                 \* the list detect_duplicates builds / returns
    examined,                   \* history: the (i, j) compared so far, in order
    dup_pos,                    \* history: the (i, j) of each entry of duplicates
    ids_to_remove,              \* clean_duplicates' removal set
    cleaned_df,                 \* index labels of the rows of cleaned_df, in order
    db_locations,               \* durable table locations (index labels of rows)
    db_duplicate_log,           \* durable table duplicate_log
    db_prices,                  \* durable table prices (location ids)
    db_social_metrics,          \* durable table social_metrics (location ids)
    csv_file,                   \* cleaned_coffee_shops.csv: <<>> = absent, else <<rows>>
    log_committed,              \* history: entries ever committed to duplicate_log
    log_outcome,                \* how log_duplicates_to_db ended: "none", "skipped",
                                \* "logged", "swallowed" (never "raised")
    save_failure,               \* history: where save_to_database left the durable
                                \* path: "none", "no_engine", "data_hash", "delete",
                                \* "insert", "regenerate"
    save_result,                \* what save_to_database returned: "unset" until it
                                \* returns, then the returned value
    df_columns,                 \* the columns of df
    cleaned_columns,            \* the columns of cleaned_df
    first_pass                  \* history: <<>> or <<the results of an earlier pass>>

vars == <<pc, df, has_id, engine, name_similarity_threshold, distance_threshold,
          i, j, comparisons, duplicates, examined, dup_pos, ids_to_remove,
          cleaned_df, db_locations, db_duplicate_log, db_prices,
          db_social_metrics, csv_file, log_committed, log_outcome,
          save_failure, save_result, df_columns, cleaned_columns, first_pass>>

----------------------------------------------------------------------------
(* Bounds of the model *)

MaxN == 4                \* rows in the input of a run of main()
MaxScanN == 3            \* rows in the input of detect_duplicates on its own
MaxLat == 2              \* grid latitudes 0..MaxLat
LatStepMeters == 50      \* metres between neighbouring grid latitudes
MaxPairId == 4           \* ids 0..MaxPairId in a pair a caller hands over
MaxNameLen == 2          \* characters in a name, where all names are drawn

(* Program constants *)
DefaultNameThreshold == 85
DefaultDistanceThreshold == 50

NameSet == { <<"a", "b">>, <<"A", "c">> }

\* an empty name cell of the csv file, read by pd.read_csv as the float NaN
NaN == <<"NaN">>
NameThresholds == {DefaultNameThreshold, 50}

----------------------------------------------------------------------------
(* Pure functions *)

Abs(x) == IF x < 0 THEN -x ELSE x

Max(a, b) == IF a >= b THEN a ELSE b

Front(s) == SubSeq(s, 1, Len(s) - 1)

\* str.lower() on one character
LowerChar(c) ==
    CASE c = "A" -> "a"
      [] c = "B" -> "b"
      [] c = "C" -> "c"
      [] OTHER -> c

lower(s) == [k \in 1..Len(s) |-> LowerChar(s[k])]

\* length of a longest common subsequence
RECURSIVE LCS(_, _)
LCS(s, t) ==
    IF Len(s) = 0 \/ Len(t) = 0 THEN 0
    ELSE IF s[Len(s)] = t[Len(t)] THEN 1 + LCS(Front(s), Front(t))
    ELSE Max(LCS(Front(s), t), LCS(s, Front(t)))

\* rapidfuzz fuzz.ratio: normalized Indel similarity,
\* 100 * (1 - (len1 + len2 - 2*lcs) / (len1 + len2)), 100 for two empty strings
fuzz_ratio(s, t) ==
    IF Len(s) + Len(t) = 0 THEN [num |-> 100, den |-> 1]
    ELSE [num |-> 200 * LCS(s, t), den |-> Len(s) + Len(t)]

\* the similarity with only the first name lowered
calculate_similarity_first_lowered(name1, name2) == fuzz_ratio(lower(name1), name2)

calculate_similarity(name1, name2) == fuzz_ratio(lower(name1), lower(name2))

\* haversine distance in metres, for two points of the same meridian
calculate_distance(lat1, lon1, lat2, lon2) == LatStepMeters * Abs(lat2 - lat1)

\* score >= threshold, exactly
ScoreGeq(score, thr) == score.num >= thr * score.den

\* the verdict with both comparisons strict
is_duplicate_strict(name_similarity, distance, nthr, dthr) ==
    name_similarity.num > nthr * name_similarity.den /\ distance < dthr

is_duplicate(name_similarity, distance, nthr, dthr) ==
    ScoreGeq(name_similarity, nthr) /\ distance <= dthr

----------------------------------------------------------------------------
(* The input *)

N == Len(df)

\* df.iloc[k] for a 0-based position k
iloc(k) == df[k + 1]

\* row.get('id', k)
row_id(k) == IF has_id THEN iloc(k).id ELSE k

\* the value of the id column of the row at position p (1..n) of n rows:
\* "ascending" is generate_coffee_shop_data's range(1, n+1); "descending" is the
\* same file sorted the other way round, unique ids that are not the position;
\* "none" is a file without an id column (the field is then never read)
assigned_id(p, n, order) ==
    CASE order = "ascending" -> p
      [] order = "descending" -> n + 1 - p
      [] OTHER -> -1

IdOrders == {"none", "ascending", "descending"}

Row(p, n, name, lat, order) ==
    [id |-> assigned_id(p, n, order), name |-> name, latitude |-> lat,
     longitude |-> 0]

\* the DataFrames pd.read_csv may return
InputsOver(order, maxRows, names, lats) ==
    UNION { { [p \in 1..n |-> Row(p, n, f[p][1], f[p][2], order)] :
                f \in [1..n -> names \X lats] } : n \in 0..maxRows }

Inputs(order, maxRows) == InputsOver(order, maxRows, NameSet, 0..MaxLat)

\* frames with their id layout
Frames(maxRows, names, lats, orders) ==
    UNION { { [df |-> d, has_id |-> (order # "none")] :
                d \in InputsOver(order, maxRows, names, lats) } : order \in orders }

\* the columns of coffee_shop_data.csv
csv_columns(withId) ==
    (IF withId THEN {"id"} ELSE {}) \cup
        {"name", "latitude", "longitude", "area_sqm", "followers"}

AllIndex == [k \in 1..N |-> k - 1]


\* the rows main() hands to save_to_database: cleaned_df when duplicates were
\* found, df itself otherwise
save_rows == IF duplicates # <<>> THEN cleaned_df ELSE AllIndex

\* the values of the 'id' column of the given rows
IdsOf(rows) == { iloc(rows[k]).id : k \in 1..Len(rows) }

----------------------------------------------------------------------------
(* Initial state: coffee_shop_data.csv read into df, DuplicateChecker()    *)
(* constructed, the database as generate_sample_data.save_to_database left *)
(* it (all generated rows in locations, an empty duplicate_log).           *)

\* frames: the frames the run may start from; engines: the outcomes of the
\* constructor; at: the position of the caller; dupLists: the lists of
\* duplicates the caller may hold there
InitWith(frames, engines, at, dupLists) ==
    /\ pc = at
    /\ \E f \in frames :
         /\ has_id = f.has_id
         /\ df = f.df
    /\ engine \in engines
    /\ duplicates \in dupLists
    /\ name_similarity_threshold = DefaultNameThreshold
    /\ distance_threshold = DefaultDistanceThreshold
    /\ i = 0
    /\ j = 0
    /\ comparisons = 0
    /\ examined = <<>>
    /\ dup_pos = <<>>
    /\ ids_to_remove = {}
    /\ cleaned_df = <<>>
    /\ db_locations = [k \in 1..Len(df) |-> k - 1]
    /\ db_duplicate_log = <<>>
    /\ db_prices = { df[k].id : k \in 1..Len(df) }
    /\ db_social_metrics = { df[k].id : k \in 1..Len(df) }
    /\ csv_file = <<>>
    /\ log_committed = <<>>
    /\ log_outcome = "none"
    /\ save_failure = "none"
    /\ save_result = "unset"
    /\ df_columns = csv_columns(has_id)
    /\ cleaned_columns = {}
    /\ first_pass = <<>>

InitRows(maxRows) ==
    InitWith(Frames(maxRows, NameSet, 0..MaxLat, IdOrders), {"up", "none"},
             "constructed", {<<>>})

Init == InitRows(MaxN)

----------------------------------------------------------------------------
(* Configuration: the thresholds are plain attributes a caller may set     *)
(* before detection.                                                       *)

Configure(nt) ==
    /\ pc = "constructed"
    /\ nt # name_similarity_threshold
    /\ name_similarity_threshold' = nt
    /\ UNCHANGED <<pc, df, has_id, engine, distance_threshold, i, j,
                   comparisons, duplicates, examined, dup_pos, ids_to_remove,
                   cleaned_df, db_locations, db_duplicate_log, db_prices,
                   db_social_metrics, csv_file, log_committed, log_outcome,
                   save_failure, save_result, df_columns, cleaned_columns, first_pass>>

----------------------------------------------------------------------------
(* detect_duplicates *)

\* detection that keeps the list of an earlier call instead of starting
\* from an empty one
DetectBeginKeepsList ==
    /\ pc = "constructed"
    /\ comparisons' = 0
    /\ examined' = <<>>
    /\ IF N >= 2
         THEN /\ pc' = "scan"
              /\ i' = 0
              /\ j' = 1
         ELSE /\ pc' = "detected"
              /\ UNCHANGED <<i, j>>
    /\ UNCHANGED <<df, has_id, engine, name_similarity_threshold,
                   distance_threshold, duplicates, dup_pos, ids_to_remove,
                   cleaned_df, db_locations,
                   db_duplicate_log, db_prices, db_social_metrics, csv_file,
                   log_committed, log_outcome,
                   save_failure, save_result, df_columns, cleaned_columns, first_pass>>

\* lines 72-80: the counters are reset and the loops entered
DetectBegin ==
    /\ pc = "constructed"
    /\ duplicates' = <<>>
    /\ comparisons' = 0
    /\ examined' = <<>>
    /\ dup_pos' = <<>>
    /\ IF N >= 2
         THEN /\ pc' = "scan"
              /\ i' = 0
              /\ j' = 1
         ELSE /\ pc' = "detected"
              /\ UNCHANGED <<i, j>>
    /\ UNCHANGED <<df, has_id, engine, name_similarity_threshold,
                   distance_threshold, ids_to_remove, cleaned_df, db_locations,
                   db_duplicate_log, db_prices, db_social_metrics, csv_file,
                   log_committed, log_outcome,
                   save_failure, save_result, df_columns, cleaned_columns, first_pass>>

duplicate_info(a, b, name_similarity, distance) ==
    [location_1 |-> [id |-> row_id(a), name |-> iloc(a).name,
                     coordinates |-> <<iloc(a).latitude, iloc(a).longitude>>],
     location_2 |-> [id |-> row_id(b), name |-> iloc(b).name,
                     coordinates |-> <<iloc(b).latitude, iloc(b).longitude>>],
     similarity_score |-> name_similarity,
     distance_meters |-> distance]

\* the loop headers with the inner range starting at a instead of a + 1
loop_next_from_a(a, b, n) ==
    IF b + 1 < n THEN <<a, b + 1>>
    ELSE IF a + 2 < n THEN <<a + 1, a + 1>>
    ELSE <<>>

\* the loop headers of lines 79-80: the pair examined after (a, b) in a frame
\* of n rows, <<>> when both ranges are exhausted
loop_next(a, b, n) ==
    IF b + 1 < n THEN <<a, b + 1>>
    ELSE IF a + 2 < n THEN <<a + 1, a + 2>>
    ELSE <<>>

\* name.lower() exists for a str, not for the float NaN
has_lower(name) == name # NaN

\* lines 81-87: calculate_similarity raises AttributeError on a name that is
\* NaN; nothing catches it, in detect_duplicates or in main
DetectRaise ==
    /\ pc = "scan"
    /\ ~(has_lower(iloc(i).name) /\ has_lower(iloc(j).name))
    /\ comparisons' = comparisons + 1
    /\ pc' = "raised"
    /\ UNCHANGED <<df, has_id, engine, name_similarity_threshold,
                   distance_threshold, i, j, duplicates, examined, dup_pos,
                   ids_to_remove, cleaned_df, db_locations,
                   db_duplicate_log, db_prices, db_social_metrics, csv_file,
                   log_committed, log_outcome,
                   save_failure, save_result, df_columns, cleaned_columns, first_pass>>

\* lines 81-117: one iteration of the inner loop, then the loop headers
DetectStep ==
    /\ pc = "scan"
    /\ has_lower(iloc(i).name) /\ has_lower(iloc(j).name)
    /\ LET row1 == iloc(i)
           row2 == iloc(j)
           name_similarity == calculate_similarity(row1.name, row2.name)
           distance == calculate_distance(row1.latitude, row1.longitude,
                                          row2.latitude, row2.longitude)
       IN  /\ comparisons' = comparisons + 1
           /\ examined' = Append(examined, <<i, j>>)
           /\ IF is_duplicate(name_similarity, distance,
                              name_similarity_threshold, distance_threshold)
                THEN /\ duplicates' = Append(duplicates,
                            duplicate_info(i, j, name_similarity, distance))
                     /\ dup_pos' = Append(dup_pos, <<i, j>>)
                ELSE UNCHANGED <<duplicates, dup_pos>>
    /\ IF loop_next(i, j, N) # <<>>
         THEN /\ i' = loop_next(i, j, N)[1]
              /\ j' = loop_next(i, j, N)[2]
              /\ UNCHANGED pc
         ELSE /\ pc' = "detected"
              /\ UNCHANGED <<i, j>>
    /\ UNCHANGED <<df, has_id, engine, name_similarity_threshold,
                   distance_threshold, ids_to_remove, cleaned_df, db_locations,
                   db_duplicate_log, db_prices, db_social_metrics, csv_file,
                   log_committed, log_outcome,
                   save_failure, save_result, df_columns, cleaned_columns, first_pass>>

----------------------------------------------------------------------------
(* log_duplicates_to_db, called by main when duplicates is not empty *)

log_entry(dup) ==
    [location_id_1 |-> dup.location_1.id,
     location_id_2 |-> dup.location_2.id,
     similarity_score |-> dup.similarity_score,
     distance_meters |-> dup.distance_meters,
     action_taken |-> "removed_duplicate"]

log_entries == [k \in 1..Len(duplicates) |-> log_entry(duplicates[k])]

\* failure: where the database raises ("none": nowhere).  Every raise is
\* caught by the except clause of line 163; the uncommitted inserts are lost.
LogDuplicates ==
    /\ pc = "detected"
    /\ duplicates # <<>>
    /\ pc' = "logged"
    /\ IF engine = "none"
         THEN /\ log_outcome' = "skipped"
              /\ UNCHANGED <<db_duplicate_log, log_committed>>
         ELSE \E failure \in {"none", "connect", "execute", "commit"} :
                IF failure = "none"
                  THEN /\ db_duplicate_log' = db_duplicate_log \o log_entries
                       /\ log_committed' = log_committed \o log_entries
                       /\ log_outcome' = "logged"
                  ELSE /\ log_outcome' = "swallowed"
                       /\ UNCHANGED <<db_duplicate_log, log_committed>>
    /\ UNCHANGED <<df, has_id, engine, name_similarity_threshold,
                   distance_threshold, i, j, comparisons, duplicates, examined,
                   dup_pos, ids_to_remove, cleaned_df, db_locations, db_prices,
                   db_social_metrics, csv_file, save_failure,
                   save_result, df_columns, cleaned_columns, first_pass>>

----------------------------------------------------------------------------
(* clean_duplicates *)

\* lines 171-176
removal_ids(dups) == { dups[k].location_2.id : k \in 1..Len(dups) }

\* line 181: df[~df.index.isin(ids_to_remove)], the index being 0..n-1
filter_index(index, ids) == SelectSeq(index, LAMBDA k : k \notin ids)

CleanDuplicates ==
    /\ pc = "logged"
    /\ ids_to_remove' = removal_ids(duplicates)
    /\ cleaned_df' = filter_index(AllIndex, removal_ids(duplicates))
    /\ cleaned_columns' = df_columns
    /\ pc' = "cleaned"
    /\ UNCHANGED <<df, has_id, engine, name_similarity_threshold,
                   distance_threshold, i, j, comparisons, duplicates, examined,
                   dup_pos, db_locations, db_duplicate_log, db_prices,
                   db_social_metrics, csv_file, log_committed, log_outcome,
                   save_failure, save_result, df_columns, first_pass>>

----------------------------------------------------------------------------
(* save_to_database *)

SaveReady ==
    \/ pc = "cleaned"
    \/ pc = "detected" /\ duplicates = <<>>

\* save_to_database returns nothing on either path (lines 231, 262 and the
\* end of the function)
returned_value == "None"

\* lines 259-262: the except clause writes the rows to the CSV file
SaveFallbackNoFile(where) ==
    /\ UNCHANGED csv_file
    /\ save_failure' = where
    /\ save_result' = returned_value
    /\ pc' = "done"

SaveFallback(where) ==
    /\ csv_file' = <<save_rows>>
    /\ save_failure' = where
    /\ save_result' = returned_value
    /\ pc' = "done"

\* line 235: df['data_hash'] = ... adds the column to the frame it was handed,
\* which is cleaned_df after a cleaning and df itself otherwise
AddDataHash ==
    IF duplicates # <<>>
      THEN /\ cleaned_columns' = cleaned_columns \cup {"data_hash"}
           /\ UNCHANGED df_columns
      ELSE /\ df_columns' = df_columns \cup {"data_hash"}
           /\ UNCHANGED cleaned_columns

\* lines 228-239: without an engine the rows go to the CSV file; with one the
\* data_hash column is added.  On an empty frame df.apply(axis=1) returns a
\* frame, not a column, and whether the assignment of line 235 raises depends
\* on the pandas version: both outcomes are kept.
SaveBegin ==
    /\ SaveReady
    /\ IF engine = "none"
         THEN /\ csv_file' = <<save_rows>>
              /\ save_failure' = "no_engine"
              /\ save_result' = returned_value
              /\ pc' = "done"
              /\ UNCHANGED <<df_columns, cleaned_columns>>
         ELSE \/ /\ AddDataHash
                 /\ pc' = "save_delete"
                 /\ UNCHANGED <<csv_file, save_failure, save_result>>
              \/ /\ Len(save_rows) = 0
                 /\ SaveFallback("data_hash")
                 /\ UNCHANGED <<df_columns, cleaned_columns>>
    /\ UNCHANGED <<df, has_id, engine, name_similarity_threshold,
                   distance_threshold, i, j, comparisons, duplicates, examined,
                   dup_pos, ids_to_remove, cleaned_df, db_locations,
                   db_duplicate_log, db_prices, db_social_metrics,
                   log_committed, log_outcome, first_pass>>

\* lines 242-250: the four DELETEs and their commit; a raise before the
\* commit ends in the except clause of lines 259-262 with nothing deleted
SaveDelete ==
    /\ pc = "save_delete"
    /\ \E failure \in {"none", "connect", "execute", "commit"} :
         IF failure = "none"
           THEN /\ db_duplicate_log' = <<>>
                /\ db_prices' = {}
                /\ db_social_metrics' = {}
                /\ db_locations' = <<>>
                /\ pc' = "save_insert"
                /\ UNCHANGED <<csv_file, save_failure, save_result>>
           ELSE /\ SaveFallback("delete")
                /\ UNCHANGED <<db_duplicate_log, db_prices, db_social_metrics,
                               db_locations>>
    /\ UNCHANGED <<df, has_id, engine, name_similarity_threshold,
                   distance_threshold, i, j, comparisons, duplicates, examined,
                   dup_pos, ids_to_remove, cleaned_df, log_committed,
                   log_outcome, df_columns, cleaned_columns, first_pass>>

\* line 253: df.to_sql appends the rows in a transaction of its own
SaveInsert ==
    /\ pc = "save_insert"
    /\ \E failure \in {"none", "to_sql"} :
         IF failure = "none"
           THEN /\ db_locations' = db_locations \o save_rows
                /\ pc' = "save_regenerate"
                /\ UNCHANGED <<csv_file, save_failure, save_result>>
           ELSE /\ SaveFallback("insert")
                /\ UNCHANGED db_locations
    /\ UNCHANGED <<df, has_id, engine, name_similarity_threshold,
                   distance_threshold, i, j, comparisons, duplicates, examined,
                   dup_pos, ids_to_remove, cleaned_df, db_duplicate_log,
                   db_prices, db_social_metrics, log_committed, log_outcome,
                   df_columns, cleaned_columns, first_pass>>

\* lines 257, 186-224: regenerate_related_data; row['id'] raises KeyError
\* when df has no id column
SaveRegenerate ==
    /\ pc = "save_regenerate"
    /\ \E failure \in {"none", "prices", "social_metrics"} :
         /\ ~has_id => failure = "prices"
         /\ IF failure = "prices"
              THEN UNCHANGED db_prices
              ELSE db_prices' = db_prices \cup IdsOf(save_rows)
         /\ IF failure = "none"
              THEN db_social_metrics' = db_social_metrics \cup IdsOf(save_rows)
              ELSE UNCHANGED db_social_metrics
         /\ IF failure = "none"
              THEN /\ pc' = "done"
                   /\ save_result' = returned_value
                   /\ UNCHANGED <<csv_file, save_failure>>
              ELSE SaveFallback("regenerate")
    /\ UNCHANGED <<df, has_id, engine, name_similarity_threshold,
                   distance_threshold, i, j, comparisons, duplicates, examined,
                   dup_pos, ids_to_remove, cleaned_df, db_locations,
                   db_duplicate_log, log_committed, log_outcome, df_columns,
                   cleaned_columns, first_pass>>

----------------------------------------------------------------------------

Next ==
    \/ \E nt \in NameThresholds : Configure(nt)
    \/ DetectBegin
    \/ DetectStep
    \/ LogDuplicates
    \/ CleanDuplicates
    \/ SaveBegin
    \/ SaveDelete
    \/ SaveInsert
    \/ SaveRegenerate

Spec == Init /\ [][Next]_vars

(* detect_duplicates called on its own, on a frame of at most MaxScanN rows *)

\* main() on the smaller files
RunInit == InitRows(MaxScanN)

RunSpec == RunInit /\ [][Next]_vars

DetectInit == InitRows(MaxScanN)

DetectNext ==
    \/ \E nt \in NameThresholds : Configure(nt)
    \/ DetectBegin
    \/ DetectStep

DetectSpec == DetectInit /\ [][DetectNext]_vars

(* Two passes over the same frame with the same DuplicateChecker: after    *)
(* the first pass the caller keeps what it returned and calls              *)
(* detect_duplicates again                                                 *)

\* what a pass has returned: the pair list, the removal set, the cleaned
\* frame, and the entries that go to duplicate_log
pass_result ==
    [name_similarity_threshold |-> name_similarity_threshold,
     distance_threshold |-> distance_threshold,
     duplicates |-> duplicates,
     ids_to_remove |-> ids_to_remove,
     cleaned_df |-> cleaned_df,
     audit |-> log_entries]

\* the pass is over: clean_duplicates has returned, or detect_duplicates
\* has returned no pair and main does not clean
PassOver == pc = "cleaned" \/ (pc = "detected" /\ duplicates = <<>>)

Replay ==
    /\ PassOver
    /\ first_pass = <<>>
    /\ first_pass' = <<pass_result>>
    /\ pc' = "constructed"
    /\ UNCHANGED <<df, has_id, engine, name_similarity_threshold,
                   distance_threshold, i, j, comparisons, duplicates, examined,
                   dup_pos, ids_to_remove, cleaned_df, db_locations,
                   db_duplicate_log, db_prices, db_social_metrics, csv_file,
                   log_committed, log_outcome,
                   save_failure, save_result, df_columns, cleaned_columns>>

ReplayInit == InitRows(MaxScanN)

ReplayNext ==
    \/ \E nt \in NameThresholds : Configure(nt)
    \/ DetectBegin
    \/ DetectStep
    \/ LogDuplicates
    \/ CleanDuplicates
    \/ Replay

ReplaySpec == ReplayInit /\ [][ReplayNext]_vars

(* detect_duplicates on frames at one place, whose names are all the       *)
(* strings of at most MaxNameLen characters of a small alphabet            *)

NameAlphabet == {"a", "A", "b"}

\* calculate_similarity takes two names: a frame of two rows gives the scan
\* every ordered pair of names
PairRows == 2

NamesUpTo(n) == UNION { [1..k -> NameAlphabet] : k \in 0..n }

SimInit ==
    InitWith(Frames(PairRows, NamesUpTo(MaxNameLen), {0}, {"ascending"}),
             {"up"}, "constructed", {<<>>})

SimSpec == SimInit /\ [][DetectNext]_vars

(* detect_duplicates on a file with empty name cells and with latitudes    *)
(* beyond the pole: the grid latitude MaxLat stands for 90 degrees, and    *)
(* the haversine formula keeps giving LatStepMeters per grid step past it  *)

MalformedInit ==
    InitWith(Frames(MaxScanN, NameSet \cup {NaN}, 0..(MaxLat + 1), IdOrders),
             {"up"}, "constructed", {<<>>})

MalformedNext ==
    \/ \E nt \in NameThresholds : Configure(nt)
    \/ DetectBegin
    \/ DetectStep
    \/ DetectRaise

MalformedSpec == MalformedInit /\ [][MalformedNext]_vars

(* clean_duplicates called on its own, with a list of one pair that the    *)
(* caller built: its two ids need not be ids of the frame                  *)

caller_pair(a, b) ==
    [location_1 |-> [id |-> a, name |-> <<"a", "b">>, coordinates |-> <<0, 0>>],
     location_2 |-> [id |-> b, name |-> <<"a", "b">>, coordinates |-> <<0, 0>>],
     similarity_score |-> [num |-> 100, den |-> 1],
     distance_meters |-> 0]

CallerLists ==
    { <<caller_pair(a, b)>> : a \in 0..MaxPairId, b \in 0..MaxPairId }

CleanInit ==
    InitWith(Frames(MaxScanN, NameSet, {0}, IdOrders), {"up"}, "logged",
             CallerLists)

CleanNext == CleanDuplicates

CleanSpec == CleanInit /\ [][CleanNext]_vars

----------------------------------------------------------------------------
(* Vocabulary of the properties *)

Range(s) == { s[k] : k \in 1..Len(s) }

Positions == 0..(N - 1)

\* detect_duplicates has returned
Detected == pc \notin {"constructed", "scan"}

\* the entry of duplicates at k reports rows a and b, in this order
Reports(k, a, b) ==
    /\ dup_pos[k] = <<a, b>>
    /\ duplicates[k].location_1.id = row_id(a)
    /\ duplicates[k].location_1.name = iloc(a).name
    /\ duplicates[k].location_1.coordinates = <<iloc(a).latitude, iloc(a).longitude>>
    /\ duplicates[k].location_2.id = row_id(b)
    /\ duplicates[k].location_2.name = iloc(b).name
    /\ duplicates[k].location_2.coordinates = <<iloc(b).latitude, iloc(b).longitude>>

Reported(a, b) == \E k \in 1..Len(duplicates) : Reports(k, a, b)

\* the two scores of rows a and b, written out
SimNum(a, b) == 200 * LCS(lower(iloc(a).name), lower(iloc(b).name))
SimDen(a, b) == Len(iloc(a).name) + Len(iloc(b).name)
Meters(a, b) == LatStepMeters * Abs(iloc(a).latitude - iloc(b).latitude)

NameOk(a, b) == SimNum(a, b) >= name_similarity_threshold * SimDen(a, b)
NameExact(a, b) == SimNum(a, b) = name_similarity_threshold * SimDen(a, b)
NearOk(a, b) == Meters(a, b) <= distance_threshold
NearExact(a, b) == Meters(a, b) = distance_threshold

----------------------------------------------------------------------------
(* C1: once detect_duplicates has returned, a pair of rows (a, b), a < b,  *)
(* is reported if and only if its name similarity is at least the name     *)
(* threshold and its distance is at most the distance threshold (both      *)
(* inclusive); a pair meeting one condition only is not reported.          *)

C1_VerdictIffBothThresholds ==
    Detected =>
        \A a \in Positions : \A b \in Positions :
            a < b => (Reported(a, b) <=> (NameOk(a, b) /\ NearOk(a, b)))

\* a pair exactly on both thresholds is reported, while a pair that is similar
\* but too far apart is not
C1_Witness ==
    /\ pc = "detected"
    /\ \E a \in Positions : \E b \in Positions :
         a < b /\ NameExact(a, b) /\ NearExact(a, b) /\ Reported(a, b)
    /\ \E a \in Positions : \E b \in Positions :
         a < b /\ NameOk(a, b) /\ ~NearOk(a, b) /\ ~Reported(a, b)

----------------------------------------------------------------------------
(* C7: detect_duplicates examines every unordered pair of the n rows       *)
(* exactly once, n*(n-1)/2 comparisons in all, and then returns; the list  *)
(* it returns holds the flagged pairs in scan order: location_1 precedes   *)
(* location_2 in the input, and the pairs ascend by i, then by j.          *)

TotalComparisons == (N * (N - 1)) \div 2

LexLess(p, q) == p[1] < q[1] \/ (p[1] = q[1] /\ p[2] < q[2])

TimesExamined(a, b) == Cardinality({ k \in 1..Len(examined) : examined[k] = <<a, b>> })

C7_ScanState ==
    /\ Len(examined) = comparisons
    /\ \A k \in 1..Len(examined) :
         /\ examined[k][1] \in Positions
         /\ examined[k][2] \in Positions
         /\ examined[k][1] < examined[k][2]
    /\ \A k \in 1..(Len(examined) - 1) : LexLess(examined[k], examined[k + 1])
    /\ \A a \in Positions : \A b \in Positions : TimesExamined(a, b) <= 1
    /\ pc = "scan" =>
         /\ comparisons < TotalComparisons
         /\ i \in Positions
         /\ j \in Positions
         /\ i < j
         /\ TimesExamined(i, j) = 0
    /\ Detected =>
         /\ comparisons = TotalComparisons
         /\ \A a \in Positions : \A b \in Positions :
              a < b => TimesExamined(a, b) = 1
    /\ Len(dup_pos) = Len(duplicates)
    /\ \A k \in 1..Len(duplicates) :
         /\ dup_pos[k][1] < dup_pos[k][2]
         /\ Reports(k, dup_pos[k][1], dup_pos[k][2])
    /\ \A k \in 1..(Len(dup_pos) - 1) : LexLess(dup_pos[k], dup_pos[k + 1])

\* every step of the scan is one comparison, and the scan returns with the step
\* that makes the last one
C7_ScanStep ==
    pc = "scan" =>
        /\ comparisons' = comparisons + 1
        /\ pc' \in {"scan", "detected"}
        /\ (pc' = "detected") <=> (comparisons' = TotalComparisons)

C7_ScanOnceInOrderThenReturns ==
    /\ []C7_ScanState
    /\ [][C7_ScanStep]_vars

\* a scan of three rows has returned after its three comparisons, with two
\* flagged pairs in the list
C7_Witness ==
    /\ pc = "detected"
    /\ N = 3
    /\ comparisons = 3
    /\ examined = << <<0, 1>>, <<0, 2>>, <<1, 2>> >>
    /\ Len(duplicates) >= 2

----------------------------------------------------------------------------
(* Vocabulary of the resolution properties.  Rows are named by their       *)
(* position 0..n-1 in the input, which is also their index label.          *)

\* clean_duplicates has returned
Cleaned == pc = "cleaned"

Edges == Range(dup_pos)

Adjacent(a, b) == <<a, b>> \in Edges \/ <<b, a>> \in Edges

\* a takes part in a flagged pair
InPair(a) == \E b \in Positions : Adjacent(a, b)

RECURSIVE Grow(_)
Grow(S) ==
    LET T == S \cup { b \in Positions : \E a \in S : Adjacent(a, b) }
    IN  IF T = S THEN S ELSE Grow(T)

\* the connected component of a in the graph of the flagged pairs
Component(a) == Grow({a})

Earliest(S) == CHOOSE a \in S : \A b \in S : a <= b

Survivors == Range(cleaned_df)

UniqueIds == has_id /\ \A a \in Positions : \A b \in Positions :
                 iloc(a).id = iloc(b).id => a = b

----------------------------------------------------------------------------
(* C2: after clean_duplicates every connected component of the flagged     *)
(* pairs has exactly one member left in the cleaned collection, the        *)
(* earliest-scanned record of the component.                               *)

C2_OneSurvivorPerComponent ==
    Cleaned =>
        \A a \in Positions :
            InPair(a) => Component(a) \cap Survivors = {Earliest(Component(a))}

----------------------------------------------------------------------------
(* C3: with unique ids, every connected component of the flagged pairs     *)
(* keeps at least one of its records in the cleaned collection.            *)

C3_ComponentKeepsAMember ==
    (Cleaned /\ UniqueIds) =>
        \A a \in Positions :
            InPair(a) => Component(a) \cap Survivors # {}

----------------------------------------------------------------------------
(* C4: with unique ids, a record that takes part in no flagged pair is in  *)
(* the cleaned collection.                                                 *)

C4_UnflaggedRecordKept ==
    (Cleaned /\ UniqueIds) =>
        \A a \in Positions : ~InPair(a) => a \in Survivors

----------------------------------------------------------------------------
(* C5: for every pair handed to clean_duplicates, the second record in     *)
(* scan order is absent from the cleaned collection and the first record   *)
(* is present in it.                                                       *)

C5_SecondRemovedFirstKept ==
    Cleaned =>
        \A k \in 1..Len(dup_pos) :
            /\ dup_pos[k][2] \notin Survivors
            /\ dup_pos[k][1] \in Survivors

----------------------------------------------------------------------------
(* C6: with unique ids, the cleaned collection is the input without the    *)
(* records whose id is the location_2 id of a supplied pair, the others in *)
(* their original order.                                                   *)

C6_InputMinusRemovalSet ==
    (Cleaned /\ UniqueIds) =>
        cleaned_df = SelectSeq(AllIndex,
                        LAMBDA a : \A k \in 1..Len(duplicates) :
                                      duplicates[k].location_2.id # iloc(a).id)

----------------------------------------------------------------------------
(* C8: an entry written to duplicate_log is never removed or altered by a  *)
(* later operation of the run: the log only grows, and at the end of main  *)
(* every logged decision is still in it.                                   *)

IsPrefix(s, t) == Len(s) <= Len(t) /\ SubSeq(t, 1, Len(s)) = s

C8_AuditLogAppendOnly ==
    /\ [][IsPrefix(db_duplicate_log, db_duplicate_log')]_vars
    /\ [](pc = "done" => IsPrefix(log_committed, db_duplicate_log))

----------------------------------------------------------------------------
(* C9: when duplicates were detected and log_duplicates_to_db has          *)
(* returned, either every decision is in the log or the call raised a      *)
(* persistence error.                                                      *)

C9_NoDecisionLostSilently ==
    pc = "logged" =>
        \/ \A k \in 1..Len(duplicates) :
              log_entry(duplicates[k]) \in Range(db_duplicate_log)
        \/ log_outcome = "raised"

----------------------------------------------------------------------------
(* C10: in every reachable state the durable locations table holds either  *)
(* the complete previous record set or the complete new cleaned set.       *)

PreviousLocations == AllIndex

C10_ReplaceIsAtomic ==
    \/ db_locations = PreviousLocations
    \/ db_locations = save_rows

----------------------------------------------------------------------------
(* C11: whenever the durable store is unavailable or a durable write step  *)
(* of save_to_database fails (no engine, the deletes, the insert, the      *)
(* regeneration of the related data), the rows handed to save_to_database  *)
(* are in the local fallback file when it returns.                         *)

SaveReturned == pc = "done"

C11_FallbackFileWritten ==
    (SaveReturned /\ (engine = "none" \/ save_failure # "none")) =>
        csv_file = <<save_rows>>

\* the insert of a cleaned, non-empty frame failed after the deletes were
\* committed, and the rows are in the file
C11_Witness ==
    /\ SaveReturned
    /\ save_failure = "insert"
    /\ duplicates # <<>>
    /\ Len(save_rows) > 0
    /\ db_locations = <<>>
    /\ csv_file = <<save_rows>>

----------------------------------------------------------------------------
(* C12: the result of save_to_database tells its caller which path         *)
(* succeeded: what it returns after a fallback to the local file differs   *)
(* from what it returns after a successful durable write.                  *)

\* what save_to_database returns when every durable step succeeded
ResultOfDurableWrite == "None"

C12_ResultTellsDegradedPath ==
    SaveReturned =>
        /\ save_failure = "none" => save_result = ResultOfDurableWrite
        /\ save_failure # "none" => save_result # ResultOfDurableWrite

----------------------------------------------------------------------------
(* C13: clean_duplicates does not return a cleaned collection when a pair  *)
(* it was given names an id that is the identity of no record of the       *)
(* frame: it reports the contract violation and aborts.                    *)

\* the identities of the records of the frame
RecordIds == { row_id(k) : k \in Positions }

C13_UnknownIdentityAborts ==
    pc = "cleaned" =>
        \A k \in 1..Len(duplicates) :
            /\ duplicates[k].location_1.id \in RecordIds
            /\ duplicates[k].location_2.id \in RecordIds

----------------------------------------------------------------------------
(* C14: a record with a missing name or with a latitude out of range is    *)
(* rejected before any scoring that involves it, and it does not abort     *)
(* the run: detect_duplicates never raises, and no pair it scores or       *)
(* reports has a malformed record.                                         *)

WellFormed(k) ==
    /\ iloc(k).name # NaN
    /\ iloc(k).latitude \in 0..MaxLat

C14_MalformedRejectedRunContinues ==
    /\ pc # "raised"
    /\ \A k \in 1..Len(examined) :
           WellFormed(examined[k][1]) /\ WellFormed(examined[k][2])
    /\ \A k \in 1..Len(dup_pos) :
           WellFormed(dup_pos[k][1]) /\ WellFormed(dup_pos[k][2])

\* the first half of C14 alone: detect_duplicates never raises
C14_NeverRaises == pc # "raised"

\* the second half of C14 alone: no scored pair has a malformed record
C14_NoMalformedScored ==
    \A k \in 1..Len(examined) :
        WellFormed(examined[k][1]) /\ WellFormed(examined[k][2])

----------------------------------------------------------------------------
(* C15: calculate_similarity is symmetric, so the verdict of a pair does   *)
(* not depend on which of its two records is scanned first: for every      *)
(* pair (a, b) the scan has examined, the score it computed from (a, b)    *)
(* is the score of (b, a), and the pair is reported exactly when the       *)
(* pair taken in the other order meets both thresholds.                    *)

\* the score and the distance of rows a and b taken in the other order
SwappedSimilarity(a, b) == calculate_similarity(iloc(b).name, iloc(a).name)
SwappedDistance(a, b) ==
    calculate_distance(iloc(b).latitude, iloc(b).longitude,
                       iloc(a).latitude, iloc(a).longitude)

C15_SimilaritySymmetric ==
    \A k \in 1..Len(examined) :
        LET a == examined[k][1]
            b == examined[k][2]
        IN  /\ calculate_similarity(iloc(a).name, iloc(b).name) =
                   SwappedSimilarity(a, b)
            /\ Reported(a, b) <=>
                   is_duplicate(SwappedSimilarity(a, b), SwappedDistance(a, b),
                                name_similarity_threshold, distance_threshold)
            /\ \A d \in 1..Len(duplicates) :
                   dup_pos[d] = <<a, b>> =>
                       duplicates[d].similarity_score = SwappedSimilarity(a, b)

\* a reported pair of names of different lengths that differ in case
C15_Witness ==
    /\ pc = "detected"
    /\ Len(duplicates) = 1
    /\ iloc(0).name = <<"A">>
    /\ iloc(1).name = <<"a", "b">>
    /\ duplicates[1].similarity_score = [num |-> 200, den |-> 3]

----------------------------------------------------------------------------
(* C16: when the decisions of a run were logged and clean_duplicates has   *)
(* returned, duplicate_log holds exactly one entry per removed record:     *)
(* as many entries as records were removed, each removed record the        *)
(* losing id of one entry, and the surviving id of each entry the id of a  *)
(* record of the cleaned collection.                                       *)

Removed == Positions \ Survivors

C16_OneAuditEntryPerRemovedRecord ==
    (Cleaned /\ log_outcome = "logged") =>
        /\ Len(db_duplicate_log) = Cardinality(Removed)
        /\ \A a \in Removed :
               Cardinality({ k \in 1..Len(db_duplicate_log) :
                               db_duplicate_log[k].location_id_2 = row_id(a) }) = 1
        /\ \A k \in 1..Len(db_duplicate_log) :
               \E a \in Survivors : row_id(a) = db_duplicate_log[k].location_id_1

\* the count alone, for files whose ids the filter happens to match
C16_EntryCountIsRemovedCount ==
    (Cleaned /\ log_outcome = "logged" /\ UniqueIds
       /\ \A a \in Positions : (a \in Removed) <=> (row_id(a) \in ids_to_remove)) =>
        Len(db_duplicate_log) = Cardinality(Removed)

----------------------------------------------------------------------------
(* C17: across a pass of main the frame read from the file is never        *)
(* changed: in every state its columns are the columns of the file, in     *)
(* the duplicates-found path and in the no-duplicates path.                *)

C17_InputNeverMutated == df_columns = csv_columns(has_id)

\* the duplicates-found path alone, where save_to_database works on the copy
\* made by clean_duplicates
C17_InputKeptWhenDuplicatesFound ==
    duplicates # <<>> => df_columns = csv_columns(has_id)

----------------------------------------------------------------------------
(* C18: a second pass of detect_duplicates and clean_duplicates over the   *)
(* same frame, with the same thresholds as the first, returns the same     *)
(* pair list, the same removal set, the same cleaned frame and the same    *)
(* audit entries as the first.                                             *)

SecondPassOver == first_pass # <<>> /\ PassOver

SameThresholds ==
    /\ first_pass[1].name_similarity_threshold = name_similarity_threshold
    /\ first_pass[1].distance_threshold = distance_threshold

C18_ReplayGivesSameResults ==
    (SecondPassOver /\ SameThresholds) => pass_result = first_pass[1]

\* a second pass that found two pairs or more and removed a row
C18_Witness ==
    /\ SecondPassOver
    /\ SameThresholds
    /\ pc = "cleaned"
    /\ Len(duplicates) >= 2
    /\ Len(cleaned_df) < N
    /\ pass_result = first_pass[1]

====
